---- MODULE Spec2Model ----
(***************************************************************************)
(* Model of app.py (DogDog Go): the memoized catalog loader load_breeds,   *)
(* the name filter find_matches, the range formatter parse_range, and the  *)
(* script body that Streamlit re-runs per session on every interaction.    *)
(*                                                                         *)
(* Python strings are sequences of one-character strings, so that split,   *)
(* strip and the pattern search are computed character by character.       *)
(* Python values are tagged records: kind "str" (with its text in s),      *)
(* "none" (None), "nan" (pandas' float NaN for a cell no record supplied), *)
(* "num" (a non-zero number) and "obj" (a JSON object, its items in order).*)
(***************************************************************************)
EXTENDS Integers, Sequences, FiniteSets, TLC

VARIABLES
    cache,        \* st.cache_data's entry for load_breeds(): status and table
    lock,         \* holder of the entry's compute lock, or NoSession
    fetches,      \* outbound requests.get calls issued so far
    failures,     \* fetches that ended in an exception so far
    pc,           \* per session: position of its script run
    runs,         \* per session: script runs started so far
    breeds_df,    \* per session: the script's breeds_df
    breed_query,  \* per session: the script's breed_query (already stripped)
    results_df,   \* per session: the script's results_df
    shown,        \* per session: what the detail view displays
    err,          \* per session: the exception that ended its run, or NoError
    norm_in,      \* payload handed to the normalisation of load_breeds
    norm_out,     \* its outcome
    fm_in,        \* table and query handed to find_matches
    fm_out,       \* its outcome
    pr_in,        \* value handed to parse_range
    pr_out        \* its outcome

appVars  == <<cache, lock, fetches, failures, pc, runs, breeds_df, breed_query,
              results_df, shown, err>>
pureVars == <<norm_in, norm_out, fm_in, fm_out, pr_in, pr_out>>
vars     == <<cache, lock, fetches, failures, pc, runs, breeds_df, breed_query,
              results_df, shown, err, norm_in, norm_out, fm_in, fm_out,
              pr_in, pr_out>>

----------------------------------------------------------------------------
(* Bounds *)

MaxRecords  == 2   \* records in a payload handed to the normalisation
MaxRows     == 2   \* records in a payload behind a table handed to find_matches
MaxNameLen  == 2   \* characters in a breed name
MaxQueryLen == 2   \* characters in a query
MaxTextLen  == 4   \* characters in a text handed to parse_range
MaxRuns     == 2   \* script runs per session
MaxFetches  == 3   \* outbound fetches in one behaviour

----------------------------------------------------------------------------
(* Python values *)

Str(s)   == [kind |-> "str",  s |-> s,    items |-> <<>>]
PyNone   == [kind |-> "none", s |-> <<>>, items |-> <<>>]
NaN      == [kind |-> "nan",  s |-> <<>>, items |-> <<>>]
Num      == [kind |-> "num",  s |-> <<>>, items |-> <<>>]
Obj(its) == [kind |-> "obj",  s |-> <<>>, items |-> its]

\* The display sentinel, the one-character string U+2014 (em dash).
Sentinel == <<"EMDASH">>

\* All sequences over alphabet of length at most n.
RECURSIVE Strings(_, _)
Strings(alphabet, n) ==
    IF n = 0 THEN {<<>>}
    ELSE LET shorter == Strings(alphabet, n - 1)
         IN  shorter \cup {Append(s, c) : s \in shorter, c \in alphabet}

RECURSIVE SeqsUpTo(_, _)
SeqsUpTo(S, n) ==
    IF n = 0 THEN {<<>>}
    ELSE LET shorter == SeqsUpTo(S, n - 1)
         IN  shorter \cup {Append(s, e) : s \in shorter, e \in S}

Range(f) == {f[i] : i \in DOMAIN f}

----------------------------------------------------------------------------
(* load_breeds: normalisation of the payload (lines 93-130) *)

keep_cols == <<"name", "bred_for", "breed_group", "origin", "life_span",
               "temperament", "weight.metric", "height.metric", "image.url",
               "id">>

RenameMap == [name |-> "Name", bred_for |-> "BredFor", breed_group |-> "Group",
              origin |-> "Origin", life_span |-> "LifeSpan",
              temperament |-> "Temperament"] @@
             ("weight.metric" :> "WeightKg") @@ ("height.metric" :> "HeightCm") @@
             ("image.url" :> "ImageURL") @@ ("id" :> "BreedID")

\* A DataFrame: its column labels in order, and its rows, each a function from
\* the column labels to values.
EmptyDF == [cols |-> <<>>, rows |-> <<>>]

Ok(df)  == [ok |-> TRUE,  err |-> "none", df |-> df]
Raise(e) == [ok |-> FALSE, err |-> e,      df |-> EmptyDF]

\* One record of the payload, a JSON object given as its <<key, value>> items in
\* order, with each nested object's items lifted to dotted keys.
RECURSIVE flatten(_)
flatten(items) ==
    IF items = <<>> THEN <<>>
    ELSE LET k == items[1][1]
             v == items[1][2]
             head == IF v.kind = "obj"
                     THEN [i \in 1..Len(v.items) |->
                              <<k \o "." \o v.items[i][1], v.items[i][2]>>]
                     ELSE <<items[1]>>
         IN  head \o flatten(Tail(items))

Keys(flat)   == {flat[i][1] : i \in DOMAIN flat}
Lookup(flat, k) == flat[CHOOSE i \in DOMAIN flat : flat[i][1] = k][2]

\* Column labels in order of first appearance over the records.
RECURSIVE union_cols(_, _)
union_cols(cols, flats) ==
    IF flats = <<>> THEN cols
    ELSE LET f == flats[1]
             new == SelectSeq([i \in DOMAIN f |-> f[i][1]],
                              LAMBDA k : k \notin Range(cols))
         IN  union_cols(cols \o new, Tail(flats))

\* pd.json_normalize(data): one row per record; a cell whose record lacks the
\* column is NaN; a None in a column holding numbers and no text is NaN too
\* (the column is numeric).
json_normalize(data) ==
    LET flats == [i \in DOMAIN data |-> flatten(data[i])]
        cols  == union_cols(<<>>, flats)
        kinds(c) == {Lookup(flats[i], c).kind :
                        i \in {j \in DOMAIN flats : c \in Keys(flats[j])}}
        numeric(c) == "num" \in kinds(c) /\ "str" \notin kinds(c)
        cell(f, c) == IF c \notin Keys(f) THEN NaN
                      ELSE IF Lookup(f, c).kind = "none" /\ numeric(c) THEN NaN
                      ELSE Lookup(f, c)
    IN  [cols |-> cols,
         rows |-> [i \in DOMAIN flats |-> [c \in Range(cols) |-> cell(flats[i], c)]]]

\* for col in keep_cols: if col not in df.columns: df[col] = None
RECURSIVE fill_from(_, _)
fill_from(df, i) ==
    IF i > Len(keep_cols) THEN df
    ELSE LET col == keep_cols[i]
         IN  IF col \in Range(df.cols) THEN fill_from(df, i + 1)
             ELSE fill_from(
                    [cols |-> Append(df.cols, col),
                     rows |-> [r \in DOMAIN df.rows |->
                                 [c \in Range(df.cols) \cup {col} |->
                                     IF c = col THEN PyNone ELSE df.rows[r][c]]]],
                    i + 1)

fill_missing_Skipped(df) == df

fill_missing(df) == fill_from(df, 1)

\* df[keep_cols]: a KeyError when a label is not a column.
select_cols(df) ==
    IF \E i \in DOMAIN keep_cols : keep_cols[i] \notin Range(df.cols)
    THEN Raise("KeyError")
    ELSE Ok([cols |-> keep_cols,
             rows |-> [r \in DOMAIN df.rows |->
                         [c \in Range(keep_cols) |-> df.rows[r][c]]]])

\* .rename(columns={...})
rename_cols(df) ==
    LET back(n) == CHOOSE c \in Range(df.cols) : RenameMap[c] = n
    IN  [cols |-> [i \in DOMAIN df.cols |-> RenameMap[df.cols[i]]],
         rows |-> [r \in DOMAIN df.rows |->
                     [n \in {RenameMap[c] : c \in Range(df.cols)} |->
                         df.rows[r][back(n)]]]]

normalise(data) ==
    LET picked == select_cols(fill_missing(json_normalize(data)))
    IN  IF picked.ok THEN Ok(rename_cols(picked.df)) ELSE picked

----------------------------------------------------------------------------
(* Text helpers *)

\* str.lower() on the letters the model uses.
Lower(c) == CASE c = "A" -> "a" [] c = "B" -> "b" [] OTHER -> c

RECURSIVE lstrip(_)
lstrip(s) == IF s # <<>> /\ s[1] = " " THEN lstrip(Tail(s)) ELSE s

RECURSIVE rstrip(_)
rstrip(s) == IF s # <<>> /\ s[Len(s)] = " " THEN rstrip(SubSeq(s, 1, Len(s) - 1)) ELSE s

\* str.strip()
strip(s) == rstrip(lstrip(s))

\* s.split(sep)[0]: the text before the first sep, all of s when it has none.
RECURSIVE split_first(_, _)
split_first(s, sep) ==
    IF s = <<>> \/ s[1] = sep THEN <<>>
    ELSE <<s[1]>> \o split_first(Tail(s), sep)

----------------------------------------------------------------------------
(* find_matches (lines 133-141) *)

\* Series.str.contains(pat, case=False, na=False) takes pat as a regular
\* expression (regex=True is the default).  Patterns are over letters, "." and
\* "(": "." matches any character, and a "(" with no ")" does not compile.
re_compiles(pat) == \A j \in DOMAIN pat : pat[j] # "("

re_char(p, c) == p = "." \/ Lower(p) = Lower(c)

\* re.search under re.IGNORECASE
re_search(pat, s) ==
    \E i \in 0..(Len(s) - Len(pat)) : \A j \in DOMAIN pat : re_char(pat[j], s[i + j])

\* The .str accessor raises AttributeError on a column that holds numbers and no
\* text (or only NaN): its dtype, or its inferred type, is numeric.
str_accessor_ok(values) ==
    LET kinds == {values[i].kind : i \in DOMAIN values}
    IN  "str" \in kinds \/ (kinds \subseteq {"none", "nan"} /\ kinds # {"nan"})

RECURSIVE boolean_index_from(_, _, _)
boolean_index_from(rows, mask, i) ==
    IF i > Len(rows) THEN <<>>
    ELSE (IF mask[i] THEN <<rows[i]>> ELSE <<>>) \o boolean_index_from(rows, mask, i + 1)

RECURSIVE boolean_index_Reversed(_, _)
boolean_index_Reversed(rows, mask) ==
    IF rows = <<>> THEN <<>>
    ELSE boolean_index_Reversed(Tail(rows), Tail(mask))
           \o (IF mask[1] THEN <<rows[1]>> ELSE <<>>)

\* df[mask].reset_index(drop=True): the rows whose mask is True, in order.
boolean_index(rows, mask) == boolean_index_from(rows, mask, 1)

find_matches(df, query_text) ==
    IF query_text = <<>> THEN Ok(EmptyDF)
    ELSE LET names == [i \in DOMAIN df.rows |-> df.rows[i]["Name"]]
         IN  IF ~str_accessor_ok(names) THEN Raise("AttributeError")
             ELSE IF ~re_compiles(query_text) THEN Raise("re.error")
             ELSE LET mask == [i \in DOMAIN names |->
                                  /\ names[i].kind = "str"
                                  /\ re_search(query_text, names[i].s)]
                  IN  Ok([cols |-> df.cols, rows |-> boolean_index(df.rows, mask)])

frame_after_find_InPlace(df, query_text) ==
    LET r == find_matches(df, query_text) IN IF r.ok THEN r.df ELSE df

\* The caller's table after find_matches(df, query_text): df[mask] builds a new
\* frame and the function assigns to nothing it was given.
frame_after_find(df, query_text) == df

----------------------------------------------------------------------------
(* parse_range (lines 144-157) *)

parse_range_NoStrip(text_val) ==
    IF text_val.kind # "str" \/ text_val.s = <<>> THEN Sentinel
    ELSE LET first == split_first(text_val.s, "-")
         IN  IF first # <<>> THEN first ELSE Sentinel

parse_range(text_val) ==
    IF text_val.kind # "str" \/ text_val.s = <<>> THEN Sentinel
    ELSE LET first == strip(split_first(text_val.s, "-"))
         IN  IF first # <<>> THEN first ELSE Sentinel

----------------------------------------------------------------------------
(* Inputs of the three functions *)

NotCalled == [called |-> FALSE, res |-> Raise("none"), frame |-> EmptyDF]
NotParsed == [called |-> FALSE, ret |-> <<>>]
NoPair    == [data |-> <<>>, df |-> EmptyDF, q |-> <<>>]

Absent == [kind |-> "absent", s |-> <<>>, items |-> <<>>]

\* An upstream record holding exactly the source keys K (dotted for the nested
\* ones), each with a value of its own; weight and height always carry their
\* imperial reading, as the endpoint's records do.
RecordOf(K) ==
    LET plain(k)  == IF k \in K THEN <<<<k, IF k = "id" THEN Num ELSE Str(<<k>>)>>>>
                     ELSE <<>>
        sized(k)  == <<<<k, Obj(<<<<"imperial", Str(<<"i">>)>>>> \o
                              (IF (k \o ".metric") \in K
                               THEN <<<<"metric", Str(<<k>>)>>>> ELSE <<>>))>>>>
        image     == IF "image.url" \in K
                     THEN <<<<"image", Obj(<<<<"id", Str(<<"p">>)>>,
                                             <<"url", Str(<<"image">>)>>>>)>>>>
                     ELSE <<>>
    IN  plain("name") \o plain("bred_for") \o plain("breed_group") \o plain("origin")
          \o plain("life_span") \o plain("temperament") \o sized("weight")
          \o sized("height") \o image \o plain("id")

\* Records that accompany it: one with every key, an empty object, and one with
\* nulls, a weight without a metric reading, and a key the loader does not keep.
Companions ==
    { RecordOf(Range(keep_cols)),
      <<>>,
      << <<"name", PyNone>>, <<"id", PyNone>>,
         <<"weight", Obj(<<<<"imperial", Str(<<"i">>)>>>>)>>,
         <<"country_code", Str(<<"c">>)>> >> }

NormPayloads ==
    {<<>>} \cup
    { <<RecordOf(K)>> \o rest : K \in SUBSET Range(keep_cols),
                               rest \in SeqsUpTo(Companions, MaxRecords - 1) }

NameAlphabet  == {"a", "B"}
QueryAlphabet == {"A", ".", "("}
TextAlphabet  == {"2", " ", "-"}

\* Records for the filter: an id, and a name that is text, null, a number or absent.
NameValues == {Str(s) : s \in Strings(NameAlphabet, MaxNameLen)} \cup {PyNone, Num, Absent}
NameRecord(v) == (IF v = Absent THEN <<>> ELSE <<<<"name", v>>>>) \o <<<<"id", Num>>>>
FindPayloads == SeqsUpTo({NameRecord(v) : v \in NameValues}, MaxRows)
FindQueries  == Strings(QueryAlphabet, MaxQueryLen)

ParseInputs == {Str(s) : s \in Strings(TextAlphabet, MaxTextLen)} \cup {PyNone, NaN, Num}

----------------------------------------------------------------------------
(* The functions applied to bounded inputs *)

AppIdle ==
    /\ cache = [status |-> "empty", value |-> EmptyDF]
    /\ lock = "none" /\ fetches = 0 /\ failures = 0
    /\ pc = <<>> /\ runs = <<>> /\ breeds_df = <<>> /\ breed_query = <<>>
    /\ results_df = <<>> /\ shown = <<>> /\ err = <<>>

PureIdle ==
    /\ norm_in = <<>> /\ norm_out = NotCalled
    /\ fm_in = NoPair /\ fm_out = NotCalled
    /\ pr_in = PyNone /\ pr_out = NotParsed

InitNorm ==
    /\ AppIdle
    /\ norm_in \in NormPayloads /\ norm_out = NotCalled
    /\ fm_in = NoPair /\ fm_out = NotCalled
    /\ pr_in = PyNone /\ pr_out = NotParsed

CallNormalise ==
    /\ ~norm_out.called
    /\ norm_out' = [called |-> TRUE, res |-> normalise(norm_in), frame |-> EmptyDF]
    /\ UNCHANGED <<appVars, norm_in, fm_in, fm_out, pr_in, pr_out>>

SpecNorm == InitNorm /\ [][CallNormalise]_vars

InitFind ==
    /\ AppIdle
    /\ norm_in = <<>> /\ norm_out = NotCalled
    /\ \E data \in FindPayloads :
          LET df == normalise(data).df
          IN  \E q \in FindQueries : fm_in = [data |-> data, df |-> df, q |-> q]
    /\ fm_out = NotCalled
    /\ pr_in = PyNone /\ pr_out = NotParsed

CallFind ==
    /\ ~fm_out.called
    /\ fm_out' = [called |-> TRUE, res |-> find_matches(fm_in.df, fm_in.q),
                  frame |-> frame_after_find(fm_in.df, fm_in.q)]
    /\ UNCHANGED <<appVars, norm_in, norm_out, fm_in, pr_in, pr_out>>

SpecFind == InitFind /\ [][CallFind]_vars

InitParse ==
    /\ AppIdle
    /\ norm_in = <<>> /\ norm_out = NotCalled
    /\ fm_in = NoPair /\ fm_out = NotCalled
    /\ pr_in \in ParseInputs /\ pr_out = NotParsed

CallParse ==
    /\ ~pr_out.called
    /\ pr_out' = [called |-> TRUE, ret |-> parse_range(pr_in)]
    /\ UNCHANGED <<appVars, norm_in, norm_out, fm_in, fm_out, pr_in>>

SpecParse == InitParse /\ [][CallParse]_vars

----------------------------------------------------------------------------
(* The app: sessions running the script against the shared cache *)

Sessions  == {"s1", "s2"}
NoSession == "none"

\* What the endpoint may serve.  The first catalog holds the record of the
\* detail-view scenario (weight "20 - 30", a null height, life span
\* "10 - 13 y") followed by a record with a name and no life span.
Catalogs ==
    { << << <<"name", Str(<<"a", "B">>)>>,
            <<"life_span", Str(<<"1", "0", " ", "-", " ", "1", "3", " ", "y">>)>>,
            <<"weight", Obj(<< <<"imperial", Str(<<"4", "4">>)>>,
                               <<"metric", Str(<<"2", "0", " ", "-", " ", "3", "0">>)>> >>)>>,
            <<"height", Obj(<< <<"metric", PyNone>> >>)>>,
            <<"id", Num>> >>,
         << <<"name", Str(<<"a">>)>>,
            <<"weight", Obj(<< <<"imperial", Str(<<"9">>)>> >>)>>,
            <<"id", Num>> >> >>,
      << << <<"name", Str(<<"B">>)>>, <<"life_span", PyNone>>, <<"id", Num>> >> >>,
      <<>> }

\* What requests.get / raise_for_status may end in (lines 89-90).
FetchErrors == {"Timeout", "ConnectionError", "HTTPError"}
Responses ==
    {[kind |-> "ok", data |-> d] : d \in Catalogs} \cup
    {[kind |-> e, data |-> <<>>] : e \in FetchErrors}

\* Texts typed into the search box.
TypedTexts == {<<>>, <<"A">>, <<" ", "b">>, <<".">>, <<"(">>}

NoShow == [view |-> "none", row |-> <<>>, weight |-> PyNone, height |-> PyNone,
           life |-> PyNone]

Init ==
    /\ cache = [status |-> "empty", value |-> EmptyDF]
    /\ lock = NoSession
    /\ fetches = 0
    /\ failures = 0
    /\ pc = [s \in Sessions |-> "idle"]
    /\ runs = [s \in Sessions |-> 0]
    /\ breeds_df = [s \in Sessions |-> EmptyDF]
    /\ breed_query = [s \in Sessions |-> <<>>]
    /\ results_df = [s \in Sessions |-> EmptyDF]
    /\ shown = [s \in Sessions |-> NoShow]
    /\ err = [s \in Sessions |-> "none"]
    /\ PureIdle

\* The body of load_breeds on a response: requests.get or raise_for_status
\* raises, or the payload is normalised (lines 88-130).
load_breeds_Swallowing(resp) ==
    IF resp.kind \in FetchErrors THEN Ok(EmptyDF) ELSE normalise(resp.data)

load_breeds_body(resp) ==
    IF resp.kind \in FetchErrors THEN Raise(resp.kind) ELSE normalise(resp.data)

\* @st.cache_data (line 81): the entry is looked up first without the lock and
\* again under the entry's compute lock; the function runs under that lock and
\* only a returned value is stored.
cache_hit_Never(c) == FALSE

cache_hit(c) == c.status = "populated"

lock_is_free_Always(l) == TRUE

lock_is_free(l) == l = NoSession

\* Python truthiness: None and "" are false; NaN and a non-zero number are true.
truthy(v) == CASE v.kind = "str" -> v.s # <<>> [] v.kind = "none" -> FALSE [] OTHER -> TRUE

\* The detail view of a row (lines 209-216): weight and height through
\* parse_range, life span as it is when truthy.
detail_view(row) ==
    [view |-> "detail", row |-> row,
     weight |-> Str(parse_range(row["WeightKg"])),
     height |-> Str(parse_range(row["HeightCm"])),
     life |-> IF truthy(row["LifeSpan"]) THEN row["LifeSpan"] ELSE Str(Sentinel)]

\* Lines 182-233 with the i-th name picked in the selectbox.
render(query, results, i) ==
    IF query = <<>> THEN [NoShow EXCEPT !.view = "landing"]
    ELSE IF results.rows = <<>> THEN [NoShow EXCEPT !.view = "warning"]
    ELSE LET selected_name == results.rows[i]["Name"]
             first == CHOOSE j \in DOMAIN results.rows :
                         /\ results.rows[j]["Name"] = selected_name
                         /\ \A k \in 1..(j - 1) : results.rows[k]["Name"] # selected_name
         IN  detail_view(results.rows[first])

\* An interaction starts a run of the script; the search box holds text.
Rerun(s, text) ==
    /\ pc[s] \in {"idle", "done", "error"}
    /\ runs[s] < MaxRuns
    /\ runs' = [runs EXCEPT ![s] = @ + 1]
    /\ pc' = [pc EXCEPT ![s] = "load"]
    /\ breed_query' = [breed_query EXCEPT ![s] = strip(text)]
    /\ breeds_df' = [breeds_df EXCEPT ![s] = EmptyDF]
    /\ results_df' = [results_df EXCEPT ![s] = EmptyDF]
    /\ shown' = [shown EXCEPT ![s] = NoShow]
    /\ err' = [err EXCEPT ![s] = "none"]
    /\ UNCHANGED <<cache, lock, fetches, failures, pureVars>>

\* load_breeds(): the lookup without the lock.
CacheLookup(s) ==
    /\ pc[s] = "load"
    /\ IF cache_hit(cache)
       THEN /\ breeds_df' = [breeds_df EXCEPT ![s] = cache.value]
            /\ pc' = [pc EXCEPT ![s] = "search"]
       ELSE /\ pc' = [pc EXCEPT ![s] = "acquire"]
            /\ UNCHANGED breeds_df
    /\ UNCHANGED <<cache, lock, fetches, failures, runs, breed_query, results_df,
                   shown, err, pureVars>>

\* The compute lock is held: the caller waits.
Block(s) ==
    /\ pc[s] = "acquire"
    /\ ~lock_is_free(lock)
    /\ pc' = [pc EXCEPT ![s] = "blocked"]
    /\ UNCHANGED <<cache, lock, fetches, failures, runs, breeds_df, breed_query,
                   results_df, shown, err, pureVars>>

\* The caller takes the lock and looks up again: a value stored meanwhile is
\* returned, otherwise the function body starts and issues the request.
Acquire(s) ==
    /\ pc[s] \in {"acquire", "blocked"}
    /\ lock_is_free(lock)
    /\ IF cache_hit(cache)
       THEN /\ breeds_df' = [breeds_df EXCEPT ![s] = cache.value]
            /\ pc' = [pc EXCEPT ![s] = "search"]
            /\ UNCHANGED <<lock, fetches>>
       ELSE /\ fetches < MaxFetches
            /\ fetches' = fetches + 1
            /\ lock' = s
            /\ pc' = [pc EXCEPT ![s] = "fetching"]
            /\ UNCHANGED breeds_df
    /\ UNCHANGED <<cache, failures, runs, breed_query, results_df, shown, err,
                   pureVars>>

\* The request ends: the body returns a table, which is stored and returned, or
\* raises, which ends the run of the script.
FetchReturn(s, resp) ==
    /\ pc[s] = "fetching"
    /\ LET r == load_breeds_body(resp)
       IN  /\ cache' = IF r.ok THEN [status |-> "populated", value |-> r.df] ELSE cache
           /\ breeds_df' = [breeds_df EXCEPT ![s] = IF r.ok THEN r.df ELSE @]
           /\ pc' = [pc EXCEPT ![s] = IF r.ok THEN "search" ELSE "error"]
           /\ err' = [err EXCEPT ![s] = IF r.ok THEN @ ELSE r.err]
    /\ failures' = IF resp.kind \in FetchErrors THEN failures + 1 ELSE failures
    /\ lock' = NoSession
    /\ UNCHANGED <<fetches, runs, breed_query, results_df, shown, pureVars>>

\* results_df = find_matches(breeds_df, breed_query)  (line 176)
Search(s) ==
    /\ pc[s] = "search"
    /\ LET r == find_matches(breeds_df[s], breed_query[s])
       IN  /\ results_df' = [results_df EXCEPT ![s] = r.df]
           /\ pc' = [pc EXCEPT ![s] = IF r.ok THEN "display" ELSE "error"]
           /\ err' = [err EXCEPT ![s] = IF r.ok THEN @ ELSE r.err]
    /\ breeds_df' = [breeds_df EXCEPT ![s] = frame_after_find(@, breed_query[s])]
    /\ UNCHANGED <<cache, lock, fetches, failures, runs, breed_query, shown,
                   pureVars>>

\* The result display (lines 182-233).
Display(s) ==
    /\ pc[s] = "display"
    /\ \E i \in (IF results_df[s].rows = <<>> THEN {1} ELSE DOMAIN results_df[s].rows) :
          shown' = [shown EXCEPT ![s] = render(breed_query[s], results_df[s], i)]
    /\ pc' = [pc EXCEPT ![s] = "done"]
    /\ UNCHANGED <<cache, lock, fetches, failures, runs, breeds_df, breed_query,
                   results_df, err, pureVars>>

Next ==
    \E s \in Sessions :
        \/ \E text \in TypedTexts : Rerun(s, text)
        \/ CacheLookup(s)
        \/ Block(s)
        \/ Acquire(s)
        \/ \E resp \in Responses : FetchReturn(s, resp)
        \/ Search(s)
        \/ Display(s)

Spec == Init /\ [][Next]_vars

----------------------------------------------------------------------------
(* Properties of the normalisation *)

TargetCols == <<"Name", "BredFor", "Group", "Origin", "LifeSpan", "Temperament",
                "WeightKg", "HeightCm", "ImageURL", "BreedID">>

\* Where each field comes from in an upstream record: a key, or a key of a
\* nested object.
SourcePath ==
    [Name |-> <<"name">>, BredFor |-> <<"bred_for">>, Group |-> <<"breed_group">>,
     Origin |-> <<"origin">>, LifeSpan |-> <<"life_span">>,
     Temperament |-> <<"temperament">>, WeightKg |-> <<"weight", "metric">>,
     HeightCm |-> <<"height", "metric">>, ImageURL |-> <<"image", "url">>,
     BreedID |-> <<"id">>]

HasKey(items, k) == \E i \in DOMAIN items : items[i][1] = k
ValueAt(items, k) == items[CHOOSE i \in DOMAIN items : items[i][1] = k][2]

\* The value an upstream record holds at a path, Absent when it holds none.
SourceValue(record, path) ==
    IF ~HasKey(record, path[1]) THEN Absent
    ELSE LET v == ValueAt(record, path[1])
         IN  IF Len(path) = 1 THEN (IF v.kind = "obj" THEN Absent ELSE v)
             ELSE IF v.kind = "obj" /\ HasKey(v.items, path[2])
                  THEN ValueAt(v.items, path[2])
                  ELSE Absent

IsMissing(v) == v.kind \in {"none", "nan"}

\* C4: for every payload (no records, or records missing any of the keys) the
\* loader's table has exactly the ten fields, in the fixed order, in every
\* record, each copied from its source key or holding a missing value, and no
\* KeyError is raised.
C4_SchemaStable ==
    norm_out.called =>
        /\ norm_out.res.ok
        /\ norm_out.res.df.cols = TargetCols
        /\ Len(norm_out.res.df.rows) = Len(norm_in)
        /\ \A i \in DOMAIN norm_in :
              LET row == norm_out.res.df.rows[i]
              IN  /\ DOMAIN row = Range(TargetCols)
                  /\ \A n \in Range(TargetCols) :
                        LET src == SourceValue(norm_in[i], SourcePath[n])
                        IN  IF src.kind \in {"str", "num"} THEN row[n] = src
                            ELSE IsMissing(row[n])

\* Witness: a two-record payload was normalised, one cell was filled with None
\* (no record has the key) and one with NaN (only the other record has it).
C4_Witness ==
    /\ norm_out.called /\ norm_out.res.ok
    /\ Len(norm_in) = 2
    /\ \E n \in Range(TargetCols) : norm_out.res.df.rows[1][n] = PyNone
    /\ \E n \in Range(TargetCols) : norm_out.res.df.rows[1][n] = NaN

----------------------------------------------------------------------------
(* Properties of find_matches *)

\* s contains t as a literal substring, both case-folded.
ContainsFolded(s, t) ==
    \E i \in 0..(Len(s) - Len(t)) : \A j \in DOMAIN t : Lower(s[i + j]) = Lower(t[j])

LiteralMatch(row, q) == row["Name"].kind = "str" /\ ContainsFolded(row["Name"].s, q)

\* C1: find_matches(T, q) returns exactly the records of T whose Name,
\* case-folded, contains q, case-folded, as a literal substring; an empty q
\* gives zero rows.
C1_LiteralSubstring ==
    (fm_out.called /\ fm_out.res.ok) =>
        IF fm_in.q = <<>> THEN fm_out.res.df.rows = <<>>
        ELSE fm_out.res.df.rows =
                 SelectSeq(fm_in.df.rows, LAMBDA row : LiteralMatch(row, fm_in.q))

RECURSIVE IsSubseq(_, _)
IsSubseq(a, b) ==
    IF a = <<>> THEN TRUE
    ELSE IF b = <<>> THEN FALSE
    ELSE IF a[1] = b[1] THEN IsSubseq(Tail(a), Tail(b))
    ELSE IsSubseq(a, Tail(b))

\* C7: the records find_matches returns are in the order they have in the input
\* table, and the records of the loader's table are in upstream order.
C7_OrderPreserved ==
    /\ Len(fm_in.df.rows) = Len(fm_in.data)
    /\ \A i \in DOMAIN fm_in.data :
          LET src == SourceValue(fm_in.data[i], <<"name">>)
          IN  src.kind = "str" => fm_in.df.rows[i]["Name"] = src
    /\ (fm_out.called /\ fm_out.res.ok) =>
          IsSubseq(fm_out.res.df.rows, fm_in.df.rows)

\* Witness: two records with different names were both returned.
C7_Witness ==
    /\ fm_out.called /\ fm_out.res.ok
    /\ Len(fm_out.res.df.rows) = 2
    /\ fm_out.res.df.rows[1] # fm_out.res.df.rows[2]

\* C8: find_matches returns a table, and never raises, for every normalized
\* table (also with names that are missing or not text) and every query;
\* parse_range returns text for every value.
C8_NeverRaises ==
    /\ fm_out.called => fm_out.res.ok
    /\ \A v \in ParseInputs : parse_range(v) \in Seq({"2", " ", "-", "EMDASH"})

----------------------------------------------------------------------------
(* Properties of parse_range *)

Spaces(s) == \A i \in DOMAIN s : s[i] = " "

\* t is seg without the spaces at its two ends.
IsTrimOf(t, seg) ==
    /\ \E a, b \in 0..Len(seg) :
          /\ a + b <= Len(seg)
          /\ Spaces(SubSeq(seg, 1, a))
          /\ Spaces(SubSeq(seg, Len(seg) - b + 1, Len(seg)))
          /\ t = SubSeq(seg, a + 1, Len(seg) - b)
    /\ t # <<>> => (t[1] # " " /\ t[Len(t)] # " ")

\* The text before the first "-" of s.
IsLeadingSegment(seg, s) ==
    /\ Len(seg) <= Len(s)
    /\ seg = SubSeq(s, 1, Len(seg))
    /\ \A i \in DOMAIN seg : seg[i] # "-"
    /\ Len(seg) < Len(s) => s[Len(seg) + 1] = "-"

\* C5: parse_range gives the sentinel for a missing, empty or non-text value;
\* otherwise the text before the first "-", trimmed, when that is not empty, and
\* the sentinel when it is.  "20 - 30" gives "20" and "15" gives "15".
C5_LeadingValue ==
    /\ pr_out.called =>
          IF pr_in.kind # "str" \/ pr_in.s = <<>> THEN pr_out.ret = Sentinel
          ELSE \E seg \in Strings(TextAlphabet, Len(pr_in.s)) :
                  /\ IsLeadingSegment(seg, pr_in.s)
                  /\ \/ pr_out.ret # Sentinel /\ IsTrimOf(pr_out.ret, seg)
                     \/ pr_out.ret = Sentinel /\ Spaces(seg)
    /\ parse_range(Str(<<"2", "0", " ", "-", " ", "3", "0">>)) = <<"2", "0">>
    /\ parse_range(Str(<<"1", "5">>)) = <<"1", "5">>

\* Witness: a text with spaces around its leading value and a "-" after it.
C5_Witness ==
    /\ pr_out.called
    /\ pr_in = Str(<<" ", "2", " ", "-">>)
    /\ pr_out.ret = <<"2">>

----------------------------------------------------------------------------
(* Properties of the memoized loader *)

Fetching == {s \in Sessions : pc[s] = "fetching"}
Loaded(s) == pc[s] \in {"search", "display", "done"}

C3_FailurePropagates ==
    /\ [](\A s \in Sessions : Loaded(s) => (cache.status = "populated" /\ failures < fetches))
    /\ [](fetches = failures => cache.status = "empty")
    /\ [][\A s \in Sessions :
            (pc[s] = "fetching" /\ failures' = failures + 1) =>
                /\ pc'[s] = "error" /\ err'[s] \in FetchErrors
                /\ breeds_df'[s] = EmptyDF
                /\ cache' = cache /\ cache.status = "empty"]_vars
    /\ [][\A s \in Sessions :
            (pc[s] \in {"acquire", "blocked"} /\ cache.status = "empty"
               /\ pc'[s] \notin {"acquire", "blocked"}) =>
                (pc'[s] = "fetching" /\ fetches' = fetches + 1)]_vars

\* Witness: a fetch failed, its caller's run ended in that failure, and a later
\* fetch populated the cache.
C3_Witness ==
    /\ failures >= 1 /\ fetches >= 2
    /\ cache.status = "populated"
    /\ \E s \in Sessions : pc[s] = "error" /\ err[s] \in FetchErrors

\* C6: once a call has succeeded, every call returns the cached table and no
\* further fetch is issued.
C6_Memoized ==
    /\ [](\A s \in Sessions :
            pc[s] = "search" => (cache.status = "populated" /\ breeds_df[s] = cache.value))
    /\ [][cache.status = "populated" =>
            (fetches' = fetches /\ cache'.value = cache.value)]_vars

\* Witness: one session alone has called load_breeds twice, with one fetch.
C6_Witness ==
    \E s \in Sessions :
        /\ runs[s] = 2 /\ pc[s] = "search"
        /\ \A t \in Sessions \ {s} : runs[t] = 0
        /\ fetches = 1 /\ failures = 0
        /\ breeds_df[s].rows # <<>>

----------------------------------------------------------------------------
(* Properties of the script's use of the table *)

\* C9: the detail view shows parse_range of the weight and of the height, and
\* the life span as it is when present and the sentinel when it is missing.
C9_DetailView ==
    \A s \in Sessions :
        shown[s].view = "detail" =>
            LET row == shown[s].row
            IN  /\ shown[s].weight = Str(parse_range(row["WeightKg"]))
                /\ shown[s].height = Str(parse_range(row["HeightCm"]))
                /\ shown[s].life = IF IsMissing(row["LifeSpan"]) THEN Str(Sentinel)
                                   ELSE row["LifeSpan"]

====
